---- MODULE Spec2Model ----
(***************************************************************************)
(* Cart / checkout sequence of the ShopCart storefront.                    *)
(*                                                                         *)
(* The persistence service is modelled by the three tables carts,          *)
(* cart_items and orders of the migration, their constraints and their     *)
(* row-level policies.  The Shop page is modelled per browser session.     *)
(* A handler runs from the click to its first await in one step, and       *)
(* every answer of an awaited request is one further step, in which the    *)
(* service executes the request and the handler runs on to its next await  *)
(* or to its end.  Between these steps the other handlers of the session   *)
(* and the other sessions run: a click starts a handler whatever else the  *)
(* page awaits, except that the Checkout button is disabled while a        *)
(* checkout runs.  Every handler works on the cartId of the render it was  *)
(* started from.                                                           *)
(***************************************************************************)
EXTENDS Integers, FiniteSets, Sequences, Bags, TLC

VARIABLES
    carts,        \* table public.carts      : set of [id, user_id, status]
    cartItems,    \* table public.cart_items : set of [id, cart_id, item_id, quantity]
    orders,       \* table public.orders     : set of [id, user_id, cart_id, total, status]
    nextCartId,   \* uuid_generate_v4() for carts, as a counter of fresh ids
    nextCartItemId,
    nextOrderId,
    user,         \* per session: useAuth().user, the identity of its requests
                  \*   (NoUser is null: nobody is signed in, the page is not shown)
    cartId,       \* per session: useState cartId (NoCart is null)
    items,        \* per session: useState items (ids of the listed items)
    addingToCart, \* per session: useState addingToCart (NoItem is null)
    itemsPc,      \* per session: whether the loadItems query is in flight
    loc,          \* per session: the await loadOrCreateCart is suspended at
    locError,     \* per session: error field of the lookup response of loadOrCreateCart
    locUid,       \* per session: identity the request loadOrCreateCart awaits was sent with
    co,           \* per session: the await checkout is suspended at
    coCart,       \* per session: cartId in the closure of the running checkout
    coUid,        \* per session: identity the request checkout awaits was sent with
    fetched,      \* per session: cartItems rows held by the running checkout
    adds,         \* per session: bag of [cart_id, item_id, at, uid] of the running
                  \*   addToCart calls: the closure's cartId, the item, the
                  \*   await the call is suspended at ("check" or "insert")
                  \*   and the identity its request was sent with
    views,        \* per session: bag of [op, cart_id, uid] of the running
                  \*   viewCart and viewOrderHistory calls
    toast,        \* notification raised by the latest step, and its session
    faults,       \* number of requests the transport may still lose
    seen          \* response of the service to the latest direct request

vars == <<carts, cartItems, orders, nextCartId, nextCartItemId, nextOrderId,
          user, cartId, items, addingToCart, itemsPc, loc, locError, locUid,
          co, coCart, coUid, fetched, adds, views, toast, faults, seen>>

tables == <<carts, cartItems, orders, nextCartId, nextCartItemId, nextOrderId>>
pageState == <<user, cartId, items, addingToCart>>
loadState == <<itemsPc, loc, locError, locUid>>
checkoutState == <<co, coCart, coUid, fetched>>
locals == <<pageState, loadState, checkoutState, adds, views, toast>>

----------------------------------------------------------------------------
(* Bounds of the model *)

MaxOrders == 2       \* orders rows
MaxCartItems == 2    \* cart_items rows
MaxFaults == 1       \* requests lost in transport
MaxViews == 1        \* viewCart and viewOrderHistory calls awaiting their answer
MaxRlsRows == 4      \* rows inserted by direct requests, over all tables

----------------------------------------------------------------------------
(* Identities and sessions *)

Users == {"u1", "u2"}
NoUser == "nobody"

(* A session is one instance of the Shop page together with the handlers
   started from it; a page opened while handlers of an earlier instance
   still run is another session.  UserOf(s) is the user who signs in at
   session s. *)
Sessions == {"s1", "s2"}
UserOf(s) == "u1"

NoCart == 0
NoItem == "none"
Statuses == {"active", "checked_out"}

(* Seed rows of public.items; prices are DECIMAL(10,2), kept in cents. *)
ItemsTable ==
    { [id |-> "A", price |-> 7999, status |-> "active"],
      [id |-> "B", price |-> 3499, status |-> "active"] }
ItemIds == {r.id : r \in ItemsTable}
PriceOf(i) == (CHOOSE r \in ItemsTable : r.id = i).price

----------------------------------------------------------------------------
(* Row-level policies of the migration.  uid is auth.uid(). *)

CartsSelectPolicy(uid, r) == uid = r.user_id
CartsInsertCheck(uid, r) == uid = r.user_id
CartsUpdateUsing(uid, r) == uid = r.user_id

(* An UPDATE policy declared with USING only applies that expression to the
   updated row as well. *)
CartsUpdateCheck(uid, r) == CartsUpdateUsing(uid, r)

OwnsCart(cs, uid, cid) == \E c \in cs : c.id = cid /\ c.user_id = uid

CartItemsSelectPolicy(cs, uid, r) == OwnsCart(cs, uid, r.cart_id)
(* the insert policy without its carts.user_id = auth.uid() conjunct *)
CartItemsInsertCheckAnyCart(cs, uid, r) == \E c \in cs : c.id = r.cart_id
CartItemsInsertCheck(cs, uid, r) == OwnsCart(cs, uid, r.cart_id)
CartItemsDeleteUsing(cs, uid, r) == OwnsCart(cs, uid, r.cart_id)

OrdersSelectPolicy(uid, r) == uid = r.user_id
OrdersInsertCheck(uid, r) == uid = r.user_id

ItemsSelectPolicy(r) == r.status = "active"

----------------------------------------------------------------------------
(* Table constraints *)

(* carts: UNIQUE(user_id, status) *)
(* the table without the constraint *)
CartsUniqueOff(cs) == TRUE
CartsUnique(cs) ==
    \A a, b \in cs : (a.user_id = b.user_id /\ a.status = b.status) => a.id = b.id

(* cart_items: UNIQUE(cart_id, item_id) *)
(* the table without the constraint *)
CartItemsUniqueOff(ci) == TRUE
CartItemsUnique(ci) ==
    \A a, b \in ci : (a.cart_id = b.cart_id /\ a.item_id = b.item_id) => a.id = b.id

(* cart_items: cart_id REFERENCES carts(id), item_id REFERENCES items(id) *)
CartItemsForeignKeys(cs, r) ==
    /\ \E c \in cs : c.id = r.cart_id
    /\ r.item_id \in ItemIds

(* orders: cart_id REFERENCES carts(id) *)
OrdersForeignKeys(cs, r) == \E c \in cs : c.id = r.cart_id

(* orders.total is DECIMAL(10,2); the totals of this model stay far below its
   range, so its overflow error is not modelled. *)

----------------------------------------------------------------------------
(* Requests served by the persistence service.  up is FALSE when the request
   is lost in transport; a request that fails leaves the table as it was. *)

ApplyPatch(r, patch) ==
    [f \in DOMAIN r |-> IF f \in DOMAIN patch THEN patch[f] ELSE r[f]]

CartsSelect(cs, uid, up) ==
    IF up THEN {r \in cs : CartsSelectPolicy(uid, r)} ELSE {}

CartsInsert(cs, uid, r, up) ==
    IF up /\ CartsInsertCheck(uid, r) /\ CartsUnique(cs \cup {r})
    THEN cs \cup {r} ELSE cs

(* The statement is rejected when an updated row fails the policy check or
   the table would break UNIQUE(user_id, status); updating no row is no
   error. *)
CartsUpdateOk(cs, uid, id, patch) ==
    LET hit == {r \in cs : r.id = id /\ CartsUpdateUsing(uid, r)}
        new == {ApplyPatch(r, patch) : r \in hit}
    IN  /\ \A n \in new : CartsUpdateCheck(uid, n)
        /\ CartsUnique((cs \ hit) \cup new)

CartsUpdate(cs, uid, id, patch, up) ==
    LET hit == {r \in cs : r.id = id /\ CartsUpdateUsing(uid, r)}
        new == {ApplyPatch(r, patch) : r \in hit}
    IN  IF up /\ CartsUpdateOk(cs, uid, id, patch)
        THEN (cs \ hit) \cup new ELSE cs

(* No DELETE policy exists for carts: no row qualifies. *)
CartsDelete(cs, uid, id, up) == cs

CartItemsSelect(ci, cs, uid, up) ==
    IF up THEN {r \in ci : CartItemsSelectPolicy(cs, uid, r)} ELSE {}

CartItemsInsert(ci, cs, uid, r, up) ==
    IF /\ up
       /\ CartItemsInsertCheck(cs, uid, r)
       /\ CartItemsForeignKeys(cs, r)
       /\ CartItemsUnique(ci \cup {r})
    THEN ci \cup {r} ELSE ci

(* No UPDATE policy exists for cart_items: no row qualifies. *)
CartItemsUpdate(ci, cs, uid, id, patch, up) == ci

CartItemsDelete(ci, cs, uid, id, up) ==
    IF up THEN {r \in ci : ~(r.id = id /\ CartItemsDeleteUsing(cs, uid, r))} ELSE ci

OrdersSelect(os, uid, up) ==
    IF up THEN {r \in os : OrdersSelectPolicy(uid, r)} ELSE {}

OrdersInsert(os, cs, uid, r, up) ==
    IF /\ up
       /\ OrdersInsertCheck(uid, r)
       /\ OrdersForeignKeys(cs, r)
    THEN os \cup {r} ELSE os

(* No UPDATE or DELETE policy exists for orders: no row qualifies. *)
OrdersUpdate(os, uid, id, patch, up) == os
OrdersDelete(os, uid, id, up) == os

----------------------------------------------------------------------------
(* JavaScript numbers and DECIMAL(10,2).
   A JavaScript number is kept as an integer count of 1/Scale cent.  Binary
   floating point represents no multiple of 0.01 exactly in general, so the
   value parsed from a DECIMAL and the result of each arithmetic operation
   may each be off by up to one unit in either direction; this is far
   coarser than the true error of a double.  Storing a number in a
   DECIMAL(10,2) column rounds it to the nearest cent.                      *)

Scale == 1000
FloatErr == {0 - 1, 0, 1}

JsFromDecimal(cents) == {cents * Scale + e : e \in FloatErr}
JsMul(xs, q) == {x * q + e : x \in xs, e \in FloatErr}
JsAdd(xs, ys) == {x + y + e : x \in xs, y \in ys, e \in FloatErr}

(* a column that truncates instead of rounding *)
DecimalTruncate(x) == x \div Scale
DecimalRound(x) == (x + (Scale \div 2)) \div Scale

(* cartItems.reduce((sum, item) => sum + item.items.price * item.quantity, 0):
   the set of numbers the reduction may yield. *)
RECURSIVE ReduceTotal(_)
ReduceTotal(rows) ==
    IF rows = {} THEN {0}
    ELSE LET r == CHOOSE x \in rows : TRUE
         IN  JsAdd(ReduceTotal(rows \ {r}), JsMul(JsFromDecimal(r.price), r.quantity))

(* The exact decimal sum, in cents. *)
RECURSIVE ExactTotal(_)
ExactTotal(rows) ==
    IF rows = {} THEN 0
    ELSE LET r == CHOOSE x \in rows : TRUE
         IN  r.price * r.quantity + ExactTotal(rows \ {r})

----------------------------------------------------------------------------
(* Queries of the Shop page.  uid is the identity the request was sent
   with (the user signed in when it was sent), who the user.id of the
   closure that built the filter. *)

(* from("items").select("*").eq("status", "active") *)
ItemsQuery(up) ==
    IF up THEN {r.id : r \in {x \in ItemsTable : ItemsSelectPolicy(x) /\ x.status = "active"}}
    ELSE {}

(* from("carts").select("id").eq("user_id", who).eq("status", "active").maybeSingle():
   the set holds the row found, and is empty for null. *)
ActiveCartQuery(cs, uid, who, up) ==
    LET rows == {r \in CartsSelect(cs, uid, up) : r.user_id = who /\ r.status = "active"}
    IN  IF Cardinality(rows) = 1 THEN rows ELSE {}

(* from("cart_items").select("id").eq("cart_id", cid).eq("item_id", i).maybeSingle() *)
ExistingItemQuery(ci, cs, uid, cid, i, up) ==
    LET rows == {r \in CartItemsSelect(ci, cs, uid, up) : r.cart_id = cid /\ r.item_id = i}
    IN  IF Cardinality(rows) = 1 THEN rows ELSE {}

(* from("cart_items").select("item_id, quantity, items (price)").eq("cart_id", cid);
   every row of ItemsTable is active, so the embedded item is never hidden. *)
CartWithPricesQuery(ci, cs, uid, cid, up) ==
    { [id |-> r.id, item_id |-> r.item_id, quantity |-> r.quantity,
       price |-> PriceOf(r.item_id)] :
      r \in {x \in CartItemsSelect(ci, cs, uid, up) : x.cart_id = cid} }

(* from("cart_items").select("id, item_id, items (name)").eq("cart_id", cid):
   the items shown by viewCart; an item is named by its id. *)
CartListingQuery(ci, cs, uid, cid, up) ==
    {r.item_id : r \in {x \in CartItemsSelect(ci, cs, uid, up) : x.cart_id = cid}}

(* from("orders").select("id, created_at, total").eq("user_id", who): the
   orders shown by viewOrderHistory; the order of the listing is not kept. *)
OrderHistoryQuery(os, uid, who, up) ==
    {[id |-> o.id, total |-> o.total] :
      o \in {x \in OrdersSelect(os, uid, up) : x.user_id = who}}

(* The transport loses at most `faults` more requests. *)
Transport(up) ==
    /\ up \/ faults > 0
    /\ faults' = IF up THEN faults ELSE faults - 1

(* toast.error / toast.success / toast.info of session s; rows is what a
   listing shows. *)
NoToast == [session |-> "none", text |-> "none", rows |-> {}]
Notify(s, text) == toast' = [session |-> s, text |-> text, rows |-> {}]
NotifyList(s, text, rows) == toast' = [session |-> s, text |-> text, rows |-> rows]
Silent == toast' = NoToast

(* The page of session s is shown: a user is signed in.  A set... call of
   a page that is no longer shown has no effect. *)
Shown(s) == user[s] # NoUser
SetState(var, s, x) == IF Shown(s) THEN [var EXCEPT ![s] = x] ELSE var

checkingOut(s) == co[s] # "idle"

(* No handler of session s is suspended at an await. *)
Quiet(s) ==
    /\ loc[s] = "idle" /\ itemsPc[s] = "idle" /\ co[s] = "idle"
    /\ adds[s] = EmptyBag /\ views[s] = EmptyBag

(* Running addToCart calls, and running view calls, over all sessions *)
RECURSIVE PendingAdds(_)
PendingAdds(ss) ==
    IF ss = {} THEN 0
    ELSE LET s == CHOOSE x \in ss : TRUE
         IN  BagCardinality(adds[s]) + PendingAdds(ss \ {s})

RECURSIVE PendingViews(_)
PendingViews(ss) ==
    IF ss = {} THEN 0
    ELSE LET s == CHOOSE x \in ss : TRUE
         IN  BagCardinality(views[s]) + PendingViews(ss \ {s})

(* An addToCart call for item i started with cartId cid, suspended at the
   await `at` on a request sent with identity uid *)
AddCall(cid, i, at, uid) == [cart_id |-> cid, item_id |-> i, at |-> at, uid |-> uid]

(* A viewCart ("cart") or viewOrderHistory ("orders") call *)
ViewCall(op, cid, uid) == [op |-> op, cart_id |-> cid, uid |-> uid]

----------------------------------------------------------------------------
(* Initial state: empty tables, nobody signed in. *)

Init ==
    /\ carts = {} /\ cartItems = {} /\ orders = {}
    /\ nextCartId = 1 /\ nextCartItemId = 1 /\ nextOrderId = 1
    /\ user = [s \in Sessions |-> NoUser]
    /\ cartId = [s \in Sessions |-> NoCart]
    /\ items = [s \in Sessions |-> {}]
    /\ addingToCart = [s \in Sessions |-> NoItem]
    /\ itemsPc = [s \in Sessions |-> "idle"]
    /\ loc = [s \in Sessions |-> "idle"]
    /\ locError = [s \in Sessions |-> FALSE]
    /\ locUid = [s \in Sessions |-> NoUser]
    /\ co = [s \in Sessions |-> "idle"]
    /\ coCart = [s \in Sessions |-> NoCart]
    /\ coUid = [s \in Sessions |-> NoUser]
    /\ fetched = [s \in Sessions |-> {}]
    /\ adds = [s \in Sessions |-> EmptyBag]
    /\ views = [s \in Sessions |-> EmptyBag]
    /\ toast = NoToast
    /\ faults = MaxFaults
    /\ seen = [caller |-> "none", table |-> "none", rows |-> {}]

----------------------------------------------------------------------------
(* The Shop page, per session *)

(* The page is opened by the signed-in user, for the first time or again
   (a reload, or a route change back to the shop): its state is the initial
   one and the effect starts loadItems and loadOrCreateCart. *)
Mount(s) ==
    /\ Quiet(s)
    /\ user' = [user EXCEPT ![s] = UserOf(s)]
    /\ cartId' = [cartId EXCEPT ![s] = NoCart]
    /\ items' = [items EXCEPT ![s] = {}]
    /\ addingToCart' = [addingToCart EXCEPT ![s] = NoItem]
    /\ itemsPc' = [itemsPc EXCEPT ![s] = "query"]
    /\ loc' = [loc EXCEPT ![s] = "select"]
    /\ locUid' = [locUid EXCEPT ![s] = UserOf(s)]
    /\ Silent
    /\ UNCHANGED <<tables, locError, checkoutState, adds, views, faults, seen>>

(* handleSignOut: the user is signed out and the page is left for /auth.
   Handlers still running run on: the requests they have sent keep their
   identity, the requests they send from now on have none. *)
SignOut(s) ==
    /\ Shown(s)
    /\ user' = [user EXCEPT ![s] = NoUser]
    /\ cartId' = [cartId EXCEPT ![s] = NoCart]
    /\ items' = [items EXCEPT ![s] = {}]
    /\ addingToCart' = [addingToCart EXCEPT ![s] = NoItem]
    /\ Silent
    /\ UNCHANGED <<tables, loadState, checkoutState, adds, views, faults, seen>>

(* loadItems: the items query is answered. *)
LoadItems(s) ==
    /\ itemsPc[s] = "query"
    /\ \E up \in BOOLEAN :
         /\ Transport(up)
         /\ IF ~up
            THEN /\ Notify(s, "Failed to load items")
                 /\ UNCHANGED items
            ELSE /\ items' = SetState(items, s, ItemsQuery(up))
                 /\ Silent
    /\ itemsPc' = [itemsPc EXCEPT ![s] = "idle"]
    /\ UNCHANGED <<tables, user, cartId, addingToCart, loc, locError, locUid,
                   checkoutState, adds, views, seen>>

(* loadOrCreateCart: the lookup of the active cart is answered; its error
   is not inspected.  With no cart found the insert is sent. *)
LoadCartLookup(s) ==
    /\ loc[s] = "select"
    /\ \E up \in BOOLEAN :
         /\ Transport(up)
         /\ LET existingCart == ActiveCartQuery(carts, locUid[s], UserOf(s), up)
            IN  /\ Silent
                /\ IF existingCart # {}
                   THEN /\ cartId' = SetState(cartId, s, (CHOOSE r \in existingCart : TRUE).id)
                        /\ loc' = [loc EXCEPT ![s] = "idle"]
                        /\ locError' = [locError EXCEPT ![s] = FALSE]
                        /\ locUid' = [locUid EXCEPT ![s] = NoUser]
                   ELSE /\ loc' = [loc EXCEPT ![s] = "insert"]
                        /\ locError' = [locError EXCEPT ![s] = ~up]
                        /\ locUid' = [locUid EXCEPT ![s] = user[s]]
                        /\ UNCHANGED cartId
    /\ UNCHANGED <<tables, user, items, addingToCart, itemsPc, checkoutState,
                   adds, views, seen>>

(* loadOrCreateCart: the insert of a new active cart is answered. *)
LoadCartInsert(s) ==
    /\ loc[s] = "insert"
    /\ \E up \in BOOLEAN :
         /\ Transport(up)
         /\ LET row == [id |-> nextCartId, user_id |-> UserOf(s), status |-> "active"]
                res == CartsInsert(carts, locUid[s], row, up)
                error == row \notin res
            IN  /\ carts' = res
                /\ nextCartId' = IF error THEN nextCartId ELSE nextCartId + 1
                /\ IF error
                   THEN /\ Notify(s, "Failed to create cart")
                        /\ UNCHANGED cartId
                   ELSE /\ cartId' = SetState(cartId, s, row.id)
                        /\ Silent
    /\ loc' = [loc EXCEPT ![s] = "idle"]
    /\ locError' = [locError EXCEPT ![s] = FALSE]
    /\ locUid' = [locUid EXCEPT ![s] = NoUser]
    /\ UNCHANGED <<cartItems, orders, nextCartItemId, nextOrderId, user,
                   items, addingToCart, itemsPc, checkoutState, adds, views, seen>>

(* addToCart(i), up to its first await: the card of a listed item is
   clicked, whatever else the page awaits; the existence check is sent for
   the cartId of this render. *)
AddToCartClick(s, i) ==
    /\ Shown(s) /\ cartId[s] # NoCart
    /\ i \in items[s]
    /\ nextCartItemId + PendingAdds(Sessions) <= MaxCartItems
    /\ addingToCart' = [addingToCart EXCEPT ![s] = i]
    /\ adds' = [adds EXCEPT ![s] = @ (+) SetToBag({AddCall(cartId[s], i, "check", user[s])})]
    /\ Silent
    /\ UNCHANGED <<tables, user, cartId, items, loadState, checkoutState,
                   views, faults, seen>>

(* addToCart: the existence check of the call p is answered; its error is
   not inspected.  With no row found the insert is sent. *)
AddToCartCheck(s, p) ==
    /\ BagIn(p, adds[s]) /\ p.at = "check"
    /\ \E up \in BOOLEAN :
         /\ Transport(up)
         /\ LET existing == ExistingItemQuery(cartItems, carts, p.uid,
                                              p.cart_id, p.item_id, up)
            IN  IF existing # {}
                THEN /\ Notify(s, "Item already in cart")
                     /\ addingToCart' = SetState(addingToCart, s, NoItem)
                     /\ adds' = [adds EXCEPT ![s] = @ (-) SetToBag({p})]
                ELSE /\ adds' = [adds EXCEPT ![s] = (@ (-) SetToBag({p})) (+)
                            SetToBag({AddCall(p.cart_id, p.item_id, "insert", user[s])})]
                     /\ Silent
                     /\ UNCHANGED addingToCart
    /\ UNCHANGED <<tables, user, cartId, items, loadState, checkoutState, views, seen>>

(* addToCart: the insert of the cart_items row of the call p is answered. *)
AddToCartInsert(s, p) ==
    /\ BagIn(p, adds[s]) /\ p.at = "insert"
    /\ \E up \in BOOLEAN :
         /\ Transport(up)
         /\ LET row == [id |-> nextCartItemId, cart_id |-> p.cart_id,
                        item_id |-> p.item_id, quantity |-> 1]
                res == CartItemsInsert(cartItems, carts, p.uid, row, up)
                error == row \notin res
            IN  /\ cartItems' = res
                /\ nextCartItemId' = IF error THEN nextCartItemId ELSE nextCartItemId + 1
                /\ IF error THEN Notify(s, "Failed to add item to cart")
                            ELSE Notify(s, "Added to cart!")
    /\ adds' = [adds EXCEPT ![s] = @ (-) SetToBag({p})]
    /\ addingToCart' = SetState(addingToCart, s, NoItem)
    /\ UNCHANGED <<carts, orders, nextCartId, nextOrderId, user,
                   cartId, items, loadState, checkoutState, views, seen>>

(* viewCart, up to its await: the Cart button is clicked and the listing
   of the cart of this render is requested. *)
ViewCartClick(s) ==
    /\ Shown(s) /\ cartId[s] # NoCart
    /\ PendingViews(Sessions) < MaxViews
    /\ views' = [views EXCEPT ![s] = @ (+) SetToBag({ViewCall("cart", cartId[s], user[s])})]
    /\ Silent
    /\ UNCHANGED <<tables, pageState, loadState, checkoutState, adds, faults, seen>>

(* viewCart: the listing requested by the call v is answered and shown. *)
ViewCart(s, v) ==
    /\ BagIn(v, views[s]) /\ v.op = "cart"
    /\ \E up \in BOOLEAN :
         /\ Transport(up)
         /\ LET names == CartListingQuery(cartItems, carts, v.uid, v.cart_id, up)
            IN  IF ~up THEN Notify(s, "Failed to load cart")
                ELSE IF names = {} THEN Notify(s, "Your cart is empty")
                ELSE NotifyList(s, "Cart Items", names)
    /\ views' = [views EXCEPT ![s] = @ (-) SetToBag({v})]
    /\ UNCHANGED <<tables, pageState, loadState, checkoutState, adds, seen>>

(* viewOrderHistory, up to its await: the Orders button is clicked. *)
ViewOrderHistoryClick(s) ==
    /\ Shown(s)
    /\ PendingViews(Sessions) < MaxViews
    /\ views' = [views EXCEPT ![s] = @ (+) SetToBag({ViewCall("orders", NoCart, user[s])})]
    /\ Silent
    /\ UNCHANGED <<tables, pageState, loadState, checkoutState, adds, faults, seen>>

(* viewOrderHistory: the orders requested by the call v are answered and
   shown. *)
ViewOrderHistory(s, v) ==
    /\ BagIn(v, views[s]) /\ v.op = "orders"
    /\ \E up \in BOOLEAN :
         /\ Transport(up)
         /\ LET list == OrderHistoryQuery(orders, v.uid, UserOf(s), up)
            IN  IF ~up THEN Notify(s, "Failed to load order history")
                ELSE IF list = {} THEN Notify(s, "No orders yet")
                ELSE NotifyList(s, "Order History", list)
    /\ views' = [views EXCEPT ![s] = @ (-) SetToBag({v})]
    /\ UNCHANGED <<tables, pageState, loadState, checkoutState, adds, seen>>

(* checkout, up to its first await: the button, disabled while a checkout
   runs, is clicked; checkingOut is set and the rows of the cart of this
   render are requested. *)
CheckoutClick(s) ==
    /\ Shown(s) /\ ~checkingOut(s) /\ cartId[s] # NoCart
    /\ nextOrderId + Cardinality({t \in Sessions : checkingOut(t)}) <= MaxOrders
    /\ co' = [co EXCEPT ![s] = "fetch"]
    /\ coCart' = [coCart EXCEPT ![s] = cartId[s]]
    /\ coUid' = [coUid EXCEPT ![s] = user[s]]
    /\ Silent
    /\ UNCHANGED <<tables, pageState, loadState, fetched, adds, views, faults, seen>>

(* checkout, step 1: the cart rows, joined to their prices, are answered;
   with rows found the total is computed and the order insert is sent. *)
CheckoutFetch(s) ==
    /\ co[s] = "fetch"
    /\ \E up \in BOOLEAN :
         /\ Transport(up)
         /\ LET rows == CartWithPricesQuery(cartItems, carts, coUid[s], coCart[s], up)
            IN  IF ~up \/ rows = {}
                THEN /\ Notify(s, "Cart is empty")
                     /\ co' = [co EXCEPT ![s] = "idle"]
                     /\ coCart' = [coCart EXCEPT ![s] = NoCart]
                     /\ coUid' = [coUid EXCEPT ![s] = NoUser]
                     /\ UNCHANGED fetched
                ELSE /\ fetched' = [fetched EXCEPT ![s] = rows]
                     /\ co' = [co EXCEPT ![s] = "order"]
                     /\ coUid' = [coUid EXCEPT ![s] = user[s]]
                     /\ Silent
                     /\ UNCHANGED coCart
    /\ UNCHANGED <<tables, pageState, loadState, adds, views, seen>>

(* checkout, steps 2 and 3 without the return after "Failed to create order" *)
CheckoutOrderNoAbort(s) ==
    /\ co[s] = "order"
    /\ \E up \in BOOLEAN, total \in ReduceTotal(fetched[s]) :
         /\ Transport(up)
         /\ LET row == [id |-> nextOrderId, user_id |-> UserOf(s), cart_id |-> coCart[s],
                        total |-> DecimalRound(total), status |-> "completed"]
                res == OrdersInsert(orders, carts, coUid[s], row, up)
                orderError == row \notin res
            IN  /\ orders' = res
                /\ nextOrderId' = IF orderError THEN nextOrderId ELSE nextOrderId + 1
                /\ IF orderError THEN Notify(s, "Failed to create order") ELSE Silent
                /\ co' = [co EXCEPT ![s] = "update"]
                /\ coUid' = [coUid EXCEPT ![s] = user[s]]
                /\ UNCHANGED coCart
    /\ fetched' = [fetched EXCEPT ![s] = {}]
    /\ UNCHANGED <<carts, cartItems, nextCartId, nextCartItemId, pageState,
                   loadState, adds, views, seen>>

(* checkout, steps 2 and 3: the insert of the order carrying the total of
   the fetched rows is answered; on success the update of the cart is sent. *)
CheckoutOrder(s) ==
    /\ co[s] = "order"
    /\ \E up \in BOOLEAN, total \in ReduceTotal(fetched[s]) :
         /\ Transport(up)
         /\ LET row == [id |-> nextOrderId, user_id |-> UserOf(s), cart_id |-> coCart[s],
                        total |-> DecimalRound(total), status |-> "completed"]
                res == OrdersInsert(orders, carts, coUid[s], row, up)
                orderError == row \notin res
            IN  /\ orders' = res
                /\ nextOrderId' = IF orderError THEN nextOrderId ELSE nextOrderId + 1
                /\ IF orderError
                   THEN /\ Notify(s, "Failed to create order")
                        /\ co' = [co EXCEPT ![s] = "idle"]
                        /\ coCart' = [coCart EXCEPT ![s] = NoCart]
                        /\ coUid' = [coUid EXCEPT ![s] = NoUser]
                   ELSE /\ co' = [co EXCEPT ![s] = "update"]
                        /\ coUid' = [coUid EXCEPT ![s] = user[s]]
                        /\ Silent
                        /\ UNCHANGED coCart
    /\ fetched' = [fetched EXCEPT ![s] = {}]
    /\ UNCHANGED <<carts, cartItems, nextCartId, nextCartItemId, pageState,
                   loadState, adds, views, seen>>

(* checkout, step 4: the update of the cart to checked_out is answered; the
   response is not inspected and the insert of a new cart is sent. *)
CheckoutUpdate(s) ==
    /\ co[s] = "update"
    /\ \E up \in BOOLEAN :
         /\ Transport(up)
         /\ carts' = CartsUpdate(carts, coUid[s], coCart[s], [status |-> "checked_out"], up)
    /\ co' = [co EXCEPT ![s] = "newcart"]
    /\ coUid' = [coUid EXCEPT ![s] = user[s]]
    /\ Silent
    /\ UNCHANGED <<cartItems, orders, nextCartId, nextCartItemId, nextOrderId,
                   pageState, loadState, coCart, fetched, adds, views, seen>>

(* checkout, step 5: the insert of a new active cart is answered and the
   cart, when one comes back, adopted; success is reported either way. *)
CheckoutNewCart(s) ==
    /\ co[s] = "newcart"
    /\ \E up \in BOOLEAN :
         /\ Transport(up)
         /\ LET row == [id |-> nextCartId, user_id |-> UserOf(s), status |-> "active"]
                res == CartsInsert(carts, coUid[s], row, up)
                newCart == IF row \in res THEN {row} ELSE {}
            IN  /\ carts' = res
                /\ nextCartId' = IF newCart = {} THEN nextCartId ELSE nextCartId + 1
                /\ cartId' = IF newCart # {} THEN SetState(cartId, s, row.id) ELSE cartId
    /\ Notify(s, "Order successful!")
    /\ co' = [co EXCEPT ![s] = "idle"]
    /\ coCart' = [coCart EXCEPT ![s] = NoCart]
    /\ coUid' = [coUid EXCEPT ![s] = NoUser]
    /\ UNCHANGED <<cartItems, orders, nextCartItemId, nextOrderId, user,
                   items, addingToCart, loadState, fetched, adds, views, seen>>

(* One step of cart resolution, add-to-cart or checkout in session s. *)
CartStep(s) ==
    \/ Mount(s)
    \/ LoadItems(s)
    \/ LoadCartLookup(s)
    \/ LoadCartInsert(s)
    \/ \E i \in ItemIds : AddToCartClick(s, i)
    \/ \E p \in BagToSet(adds[s]) : AddToCartCheck(s, p)
    \/ \E p \in BagToSet(adds[s]) : AddToCartInsert(s, p)
    \/ CheckoutClick(s)
    \/ CheckoutFetch(s)
    \/ CheckoutOrder(s)
    \/ CheckoutUpdate(s)
    \/ CheckoutNewCart(s)

(* One step of the Shop page in session s. *)
Step(s) ==
    \/ CartStep(s)
    \/ SignOut(s)
    \/ ViewCartClick(s)
    \/ \E v \in BagToSet(views[s]) : ViewCart(s, v)
    \/ ViewOrderHistoryClick(s)
    \/ \E v \in BagToSet(views[s]) : ViewOrderHistory(s, v)

Next == \E s \in Sessions : Step(s)

Spec == Init /\ [][Next]_vars

(* The same program over a transport that loses no request. *)
InitReliable ==
    /\ carts = {} /\ cartItems = {} /\ orders = {}
    /\ nextCartId = 1 /\ nextCartItemId = 1 /\ nextOrderId = 1
    /\ user = [s \in Sessions |-> NoUser]
    /\ cartId = [s \in Sessions |-> NoCart]
    /\ items = [s \in Sessions |-> {}]
    /\ addingToCart = [s \in Sessions |-> NoItem]
    /\ itemsPc = [s \in Sessions |-> "idle"]
    /\ loc = [s \in Sessions |-> "idle"]
    /\ locError = [s \in Sessions |-> FALSE]
    /\ locUid = [s \in Sessions |-> NoUser]
    /\ co = [s \in Sessions |-> "idle"]
    /\ coCart = [s \in Sessions |-> NoCart]
    /\ coUid = [s \in Sessions |-> NoUser]
    /\ fetched = [s \in Sessions |-> {}]
    /\ adds = [s \in Sessions |-> EmptyBag]
    /\ views = [s \in Sessions |-> EmptyBag]
    /\ toast = NoToast
    /\ faults = 0
    /\ seen = [caller |-> "none", table |-> "none", rows |-> {}]

SpecReliable == InitReliable /\ [][Next]_vars

(* One user in one browser session over a transport that loses no request. *)
NextSingle == Step("s1")

SpecSingle == InitReliable /\ [][NextSingle]_vars

(* One user in one browser session over a transport that loses requests. *)
SpecSingleLossy == Init /\ [][NextSingle]_vars

(* Cart resolution, add-to-cart and checkout of two sessions of one user
   over a transport that loses requests. *)
NextCart == \E s \in Sessions : CartStep(s)

SpecCart == Init /\ [][NextCart]_vars

----------------------------------------------------------------------------
(* Direct requests: any authenticated caller may send any select, insert,
   update or delete to the service, whatever the Shop page would send.
   seen is the response to the latest request and names its caller and
   table: the rows returned by a select, the rows written by an insert or
   update, the rows removed by a delete. *)

CartPatches ==
    {[status |-> st] : st \in Statuses}
        \cup {[user_id |-> w] : w \in Users}
        \cup {[user_id |-> w, status |-> st] : w \in Users, st \in Statuses}

Response(u, table, rows) ==
    seen' = [caller |-> u, table |-> table, rows |-> rows]

RowsInserted == (nextCartId - 1) + (nextCartItemId - 1) + (nextOrderId - 1)
RowIds == 1 .. MaxRlsRows

RlsSelectCarts(u) ==
    /\ Response(u, "carts", CartsSelect(carts, u, TRUE))
    /\ UNCHANGED <<tables, locals, faults>>

RlsInsertCart(u, owner, st) ==
    /\ RowsInserted < MaxRlsRows
    /\ LET row == [id |-> nextCartId, user_id |-> owner, status |-> st]
           res == CartsInsert(carts, u, row, TRUE)
       IN  /\ carts' = res
           /\ nextCartId' = IF row \in res THEN nextCartId + 1 ELSE nextCartId
           /\ Response(u, "carts", res \ carts)
    /\ UNCHANGED <<cartItems, orders, nextCartItemId, nextOrderId, locals, faults>>

RlsUpdateCart(u, id, patch) ==
    /\ LET res == CartsUpdate(carts, u, id, patch, TRUE)
       IN  /\ carts' = res
           /\ Response(u, "carts", res \ carts)
    /\ UNCHANGED <<cartItems, orders, nextCartId, nextCartItemId, nextOrderId,
                   locals, faults>>

RlsDeleteCart(u, id) ==
    /\ LET res == CartsDelete(carts, u, id, TRUE)
       IN  /\ carts' = res
           /\ cartItems' = {r \in cartItems : \E c \in res : c.id = r.cart_id}
           /\ Response(u, "carts", carts \ res)
    /\ UNCHANGED <<orders, nextCartId, nextCartItemId, nextOrderId, locals, faults>>

RlsSelectCartItems(u) ==
    /\ Response(u, "cart_items", CartItemsSelect(cartItems, carts, u, TRUE))
    /\ UNCHANGED <<tables, locals, faults>>

RlsInsertCartItem(u, cid, i, q) ==
    /\ RowsInserted < MaxRlsRows
    /\ LET row == [id |-> nextCartItemId, cart_id |-> cid, item_id |-> i, quantity |-> q]
           res == CartItemsInsert(cartItems, carts, u, row, TRUE)
       IN  /\ cartItems' = res
           /\ nextCartItemId' = IF row \in res THEN nextCartItemId + 1 ELSE nextCartItemId
           /\ Response(u, "cart_items", res \ cartItems)
    /\ UNCHANGED <<carts, orders, nextCartId, nextOrderId, locals, faults>>

RlsUpdateCartItem(u, id, q) ==
    /\ LET res == CartItemsUpdate(cartItems, carts, u, id, [quantity |-> q], TRUE)
       IN  /\ cartItems' = res
           /\ Response(u, "cart_items", res \ cartItems)
    /\ UNCHANGED <<carts, orders, nextCartId, nextCartItemId, nextOrderId,
                   locals, faults>>

RlsDeleteCartItem(u, id) ==
    /\ LET res == CartItemsDelete(cartItems, carts, u, id, TRUE)
       IN  /\ cartItems' = res
           /\ Response(u, "cart_items", cartItems \ res)
    /\ UNCHANGED <<carts, orders, nextCartId, nextCartItemId, nextOrderId,
                   locals, faults>>

RlsSelectOrders(u) ==
    /\ Response(u, "orders", OrdersSelect(orders, u, TRUE))
    /\ UNCHANGED <<tables, locals, faults>>

RlsInsertOrder(u, owner, cid, total) ==
    /\ RowsInserted < MaxRlsRows
    /\ LET row == [id |-> nextOrderId, user_id |-> owner, cart_id |-> cid,
                   total |-> total, status |-> "completed"]
           res == OrdersInsert(orders, carts, u, row, TRUE)
       IN  /\ orders' = res
           /\ nextOrderId' = IF row \in res THEN nextOrderId + 1 ELSE nextOrderId
           /\ Response(u, "orders", res \ orders)
    /\ UNCHANGED <<carts, cartItems, nextCartId, nextCartItemId, locals, faults>>

RlsUpdateOrder(u, id, owner) ==
    /\ LET res == OrdersUpdate(orders, u, id, [user_id |-> owner], TRUE)
       IN  /\ orders' = res
           /\ Response(u, "orders", res \ orders)
    /\ UNCHANGED <<carts, cartItems, nextCartId, nextCartItemId, nextOrderId,
                   locals, faults>>

RlsDeleteOrder(u, id) ==
    /\ LET res == OrdersDelete(orders, u, id, TRUE)
       IN  /\ orders' = res
           /\ Response(u, "orders", orders \ res)
    /\ UNCHANGED <<carts, cartItems, nextCartId, nextCartItemId, nextOrderId,
                   locals, faults>>


RequestBy(u) ==
    \/ RlsSelectCarts(u)
    \/ \E owner \in Users, st \in Statuses : RlsInsertCart(u, owner, st)
    \/ \E id \in RowIds, patch \in CartPatches : RlsUpdateCart(u, id, patch)
    \/ \E id \in RowIds : RlsDeleteCart(u, id)
    \/ RlsSelectCartItems(u)
    \/ \E cid \in RowIds, i \in ItemIds, q \in {2} : RlsInsertCartItem(u, cid, i, q)
    \/ \E id \in RowIds, q \in {2} : RlsUpdateCartItem(u, id, q)
    \/ \E id \in RowIds : RlsDeleteCartItem(u, id)
    \/ RlsSelectOrders(u)
    \/ \E owner \in Users, cid \in RowIds, total \in {7999} :
           RlsInsertOrder(u, owner, cid, total)
    \/ \E id \in RowIds, owner \in Users : RlsUpdateOrder(u, id, owner)
    \/ \E id \in RowIds : RlsDeleteOrder(u, id)

NextRls == \E u \in Users : RequestBy(u)
InitRls ==
    /\ carts = {} /\ cartItems = {} /\ orders = {}
    /\ nextCartId = 1 /\ nextCartItemId = 1 /\ nextOrderId = 1
    /\ user = [s \in Sessions |-> NoUser]
    /\ cartId = [s \in Sessions |-> NoCart]
    /\ items = [s \in Sessions |-> {}]
    /\ addingToCart = [s \in Sessions |-> NoItem]
    /\ itemsPc = [s \in Sessions |-> "idle"]
    /\ loc = [s \in Sessions |-> "idle"]
    /\ locError = [s \in Sessions |-> FALSE]
    /\ locUid = [s \in Sessions |-> NoUser]
    /\ co = [s \in Sessions |-> "idle"]
    /\ coCart = [s \in Sessions |-> NoCart]
    /\ coUid = [s \in Sessions |-> NoUser]
    /\ fetched = [s \in Sessions |-> {}]
    /\ adds = [s \in Sessions |-> EmptyBag]
    /\ views = [s \in Sessions |-> EmptyBag]
    /\ toast = NoToast
    /\ faults = 0
    /\ seen = [caller |-> "none", table |-> "none", rows |-> {}]

SpecRls == InitRls /\ [][NextRls]_vars

----------------------------------------------------------------------------
(* Properties *)

RowsOfPair(ci, cid, i) == {r \in ci : r.cart_id = cid /\ r.item_id = i}
RowsOfCart(ci, cid) == {r \in ci : r.cart_id = cid}
ActiveCartsOf(cs, u) == {c \in cs : c.user_id = u /\ c.status = "active"}
CartIdsOf(cs) == {c.id : c \in cs}
Notified(t, s, text) == t.session = s /\ t.text = text

(* C1: every checkout of a signed-in session that reports success leaves
   the cart that was current when it started with status checked_out, has
   created exactly one new cart row, with status active and owned by the
   user, and has made that row the session's current cart. *)
C1_CheckoutRotatesCart ==
    [][\A s \in Sessions :
         (Shown(s) /\ co[s] = "newcart" /\ co'[s] = "idle"
                /\ Notified(toast', s, "Order successful!")) =>
            LET created == {c \in carts' : c.id \notin CartIdsOf(carts)}
            IN  /\ coCart[s] = cartId[s]
                /\ \E c \in carts' : c.id = coCart[s] /\ c.status = "checked_out"
                /\ Cardinality(created) = 1
                /\ \A c \in created :
                     /\ c.status = "active" /\ c.user_id = UserOf(s)
                     /\ cartId'[s] = c.id
                /\ Cardinality(ActiveCartsOf(carts', UserOf(s))) = 1
      ]_vars

(* C2: in every reachable state every user has at most one cart row with
   status active. *)
C2_AtMostOneActiveCart ==
    \A u \in Users : Cardinality(ActiveCartsOf(carts, u)) <= 1

(* The race of C2: a session looked up the active cart, found none and is
   about to insert one, while another session of the same user has inserted
   an active cart in between. *)
C2_Witness ==
    \E s, t \in Sessions :
        /\ s # t /\ UserOf(s) = UserOf(t)
        /\ loc[s] = "insert" /\ ~locError[s]
        /\ cartId[t] # NoCart
        /\ \E c \in ActiveCartsOf(carts, UserOf(s)) : c.id = cartId[t]

(* C3, as stated: whenever an addToCart call for a (cart, item) pair ends,
   exactly one cart_items row exists for the pair and its quantity is 1, and
   a call that finds the row present writes nothing. *)
C3_ExactlyOneRowAfterAdd ==
    [][\A s \in Sessions : \A p \in BagToSet(adds[s]) :
         /\ (p.at = "insert" /\ AddToCartInsert(s, p)) =>
               /\ Cardinality(RowsOfPair(cartItems', p.cart_id, p.item_id)) = 1
               /\ \A r \in RowsOfPair(cartItems', p.cart_id, p.item_id) : r.quantity = 1
         /\ (p.at = "check" /\ Notified(toast', s, "Item already in cart")
                /\ AddToCartCheck(s, p)) =>
               /\ Cardinality(RowsOfPair(cartItems', p.cart_id, p.item_id)) = 1
               /\ cartItems' = cartItems
      ]_vars

(* C3, amended: at most one cart_items row ever exists for a (cart, item)
   pair and every row has quantity 1; when an addToCart call ends reporting
   "Added to cart!" or "Item already in cart", exactly one row exists for the
   pair; a call that finds the row present writes nothing. *)
C3_AddIsIdempotent ==
    /\ [](\A r \in cartItems :
            /\ Cardinality(RowsOfPair(cartItems, r.cart_id, r.item_id)) = 1
            /\ r.quantity = 1)
    /\ [][\A s \in Sessions : \A p \in BagToSet(adds[s]) :
            /\ (p.at = "insert" /\ Notified(toast', s, "Added to cart!")
                   /\ AddToCartInsert(s, p)) =>
                  Cardinality(RowsOfPair(cartItems', p.cart_id, p.item_id)) = 1
            /\ (p.at = "check" /\ Notified(toast', s, "Item already in cart")
                   /\ AddToCartCheck(s, p)) =>
                  /\ Cardinality(RowsOfPair(cartItems', p.cart_id, p.item_id)) = 1
                  /\ cartItems' = cartItems /\ carts' = carts /\ orders' = orders
         ]_vars

(* Two sessions hold the same cart; with no request lost, an addToCart call
   that had found its item absent was refused, because a concurrent call
   had added the row in between. *)
C3_Witness ==
    \E s, t \in Sessions :
        /\ s # t /\ cartId[s] = cartId[t] /\ cartId[s] # NoCart
        /\ Notified(toast, s, "Failed to add item to cart")
        /\ faults = MaxFaults
        /\ \E r \in cartItems : r.cart_id = cartId[s] /\ r.quantity = 1

(* C4: the click of a checkout writes nothing; a checkout that ends with
   "Cart is empty" (step 1) or with "Failed to create order" (step 3) ends
   there, and that step leaves carts, cart_items, orders and the session's
   current cart id as they were. *)
C4_SafeAbort ==
    [][\A s \in Sessions :
         /\ (co[s] = "idle" /\ co'[s] = "fetch") =>
               /\ carts' = carts /\ cartItems' = cartItems /\ orders' = orders
               /\ cartId'[s] = cartId[s]
         /\ (\/ co[s] = "fetch" /\ Notified(toast', s, "Cart is empty")
             \/ co[s] = "order" /\ Notified(toast', s, "Failed to create order")) =>
               /\ carts' = carts /\ cartItems' = cartItems /\ orders' = orders
               /\ cartId'[s] = cartId[s]
               /\ co'[s] = "idle"
      ]_vars

(* A signed-in session whose cart holds a row was stopped at step 3, its
   order request lost; no order exists and no checkout is running. *)
C4_Witness ==
    \E s \in Sessions :
        /\ Shown(s)
        /\ Notified(toast, s, "Failed to create order") /\ co[s] = "idle"
        /\ RowsOfCart(cartItems, cartId[s]) # {}
        /\ orders = {}
        /\ faults < MaxFaults

(* C5: the order a checkout creates carries the exact sum, in cents, of
   price x quantity over the rows fetched in step 1 and the id of the cart
   they were fetched from. *)
C5_TotalIsExactSum ==
    /\ [](\A s \in Sessions : co[s] = "order" =>
            /\ fetched[s] # {}
            /\ \A r \in fetched[s] :
                 \E x \in RowsOfCart(cartItems, coCart[s]) :
                     x.id = r.id /\ x.item_id = r.item_id /\ x.quantity = r.quantity
                        /\ r.price = PriceOf(x.item_id))
    /\ [][\A s \in Sessions :
            (co[s] = "order" /\ co'[s] = "update") =>
               /\ Cardinality(orders' \ orders) = 1
               /\ \A o \in orders' \ orders :
                    /\ o.total = ExactTotal(fetched[s])
                    /\ o.cart_id = coCart[s]
                    /\ o.user_id = UserOf(s)
         ]_vars

(* An order for a cart holding both items: 79.99 + 34.99 = 114.98. *)
C5_Witness ==
    \E o \in orders :
        /\ o.total = 11498
        /\ Cardinality(RowsOfCart(cartItems, o.cart_id)) = 2

(* Rows owned by user b: b's carts, the cart_items of b's carts, b's orders. *)
OwnedRows(cs, ci, os, b) ==
    << {c \in cs : c.user_id = b},
       {r \in ci : OwnsCart(cs, b, r.cart_id)},
       {o \in os : o.user_id = b} >>

(* C6: every row a response returns to a caller is owned by the caller, and
   the rows owned by a user change only through requests of that user. *)
C6_Isolation ==
    /\ [](\A r \in seen.rows :
            IF seen.table = "cart_items"
            THEN OwnsCart(carts, seen.caller, r.cart_id)
            ELSE r.user_id = seen.caller)
    /\ [][\A b \in Users :
            OwnedRows(carts', cartItems', orders', b) # OwnedRows(carts, cartItems, orders, b)
                => seen'.caller = b
         ]_vars

(* Both users own a cart, u2 owns a cart item, and u1 has just selected
   cart_items and got nothing. *)
C6_Witness ==
    /\ \E c \in carts : c.user_id = "u1"
    /\ \E r \in cartItems : OwnsCart(carts, "u2", r.cart_id)
    /\ seen.caller = "u1" /\ seen.table = "cart_items" /\ seen.rows = {}
    /\ CartItemsSelect(cartItems, carts, "u2", TRUE) # {}

(* C7: when the query of loadItems or the active-cart lookup of
   loadOrCreateCart fails, the operation reports a failure and changes no
   table row, item list or current cart id. *)
C7_ReadFailureLeavesState ==
    [][\A s \in Sessions :
         /\ (itemsPc[s] = "query" /\ itemsPc'[s] = "idle" /\ faults' < faults) =>
               /\ Notified(toast', s, "Failed to load items")
               /\ items'[s] = items[s]
               /\ carts' = carts /\ cartItems' = cartItems /\ orders' = orders
         /\ (loc[s] = "select" /\ loc'[s] # "select" /\ locError'[s]) =>
               /\ cartId'[s] = cartId[s]
               /\ carts' = carts /\ cartItems' = cartItems /\ orders' = orders
         /\ (loc[s] = "insert" /\ locError[s] /\ loc'[s] = "idle") =>
               /\ Notified(toast', s, "Failed to create cart")
               /\ cartId'[s] = cartId[s]
               /\ carts' = carts /\ cartItems' = cartItems /\ orders' = orders
      ]_vars

(* C8: once a cart has status checked_out, its set of cart_items rows never
   grows. *)
C8_CheckedOutCartIsClosed ==
    [][\A c \in carts :
          c.status = "checked_out" =>
              RowsOfCart(cartItems', c.id) \subseteq RowsOfCart(cartItems, c.id)
      ]_vars

(* C9: every cart is the source cart of at most one order. *)
C9_OneOrderPerCart ==
    \A c \in carts : Cardinality({o \in orders : o.cart_id = c.id}) <= 1

(* No handler of session s that writes is suspended at an await. *)
BetweenOperations(s) == loc[s] = "idle" /\ co[s] = "idle" /\ adds[s] = EmptyBag

(* C10: between operations, a session's current cart id, when not null, is
   the id of a cart owned by the session's user whose status is active. *)
C10_CurrentCartIsActive ==
    \A s \in Sessions :
        (BetweenOperations(s) /\ cartId[s] # NoCart) =>
            \E c \in carts :
                c.id = cartId[s] /\ c.user_id = UserOf(s) /\ c.status = "active"

====
